---- MODULE Spec2Model ----
(***************************************************************************)
(* Model of homeassistant/config_entries.py: the ConfigEntry setup/unload  *)
(* state, the ConfigEntries store (add, remove, debounced save) and the    *)
(* FlowManager step protocol.  Coroutines are cut at the points where they *)
(* await plugin code; every block between two such points is one action.   *)
(***************************************************************************)
EXTENDS Integers, Sequences, FiniteSets, TLC

\* ------------------------------------------------------------------ bounds
MaxCalls == 3      \* store API calls (add, remove) issued in one behaviour
MaxFlowCalls == 2  \* flow API calls (init, configure, abort) issued
MaxTasks == 2      \* coroutines suspended in plugin code at the same time

\* --------------------------------------------------------------- constants
SOURCE_USER == "user"
SOURCE_DISCOVERY == "discovery"
RESULT_TYPE_FORM == "form"
RESULT_TYPE_CREATE_ENTRY == "create_entry"
RESULT_TYPE_ABORT == "abort"
ENTRY_STATE_LOADED == "loaded"
ENTRY_STATE_SETUP_ERROR == "setup_error"
ENTRY_STATE_NOT_LOADED == "not_loaded"

\* Components that have config flows: loading one registers its handler.
FLOWS == {"config_entry_example"}
\* Every component the callers name; "light" loads but registers no handler.
Domains == FLOWS \cup {"light"}

\* Python's None for ids, and the values callers pass as entry_id.
None == 0
ExplicitIds == {101}
\* Entry data and step input: the schemas accept "good", coerce "raw" to
\* "good" and reject "bad"; "None" is Python's None.
Datas == {"good", "bad"}
Inputs == {"None", "raw", "bad"}
\* Sources a flow is started with; the handler has no step named "cloud".
Sources == {SOURCE_USER, SOURCE_DISCOVERY, "cloud"}

\* What a plugin callback (async_setup_entry, async_unload_entry) does:
\* it returns a value or raises an Exception.
CallbackOutcomes == {"True", "False", "None", "str", "raise"}
IsBool(v) == v \in {"True", "False"}
Truthy(v) == v \in {"True", "str"}

VARIABLES
    objs,        \* every ConfigEntry object added so far (object ref = index)
    _entries,    \* ConfigEntries._entries: sequence of object refs
    HANDLERS,    \* the registry: domains with a registered flow handler
    components,  \* hass.config.components: domains that are set up
    _progress,   \* FlowManager._progress: flow_id -> flow
    tasks,       \* coroutines suspended in plugin code
    jobs,        \* async_setup_component jobs handed to hass.async_add_job
    _sched_save, \* ConfigEntries._sched_save: None or a timer handle
    timers,      \* call_later handles that are scheduled and not cancelled
    saveJobs,    \* fired handles whose _async_save job has not started yet
    writes,      \* save_json jobs running in the executor, with their data
    file,        \* the persisted file: the data of the write that ended last
    written,     \* history: the save_json jobs that ended
    superseded,  \* history: handles that were pending when a save was scheduled
    uuid,        \* number of uuid4 values drawn
    calls,       \* number of API calls issued
    call,        \* history: the API call issued last, with its arguments
    flowCalls,   \* number of those that are flow API calls
    ret,         \* outcome of the API call that completed last
    cb,          \* history: the plugin callback that came back last
    added,       \* history: refs whose async_add_entry returned normally
    removedIds,  \* history: entry ids whose async_remove returned normally
    idOwner,     \* history: entry_id -> first object that carried it in _entries
    terminated,  \* history: flow ids whose flow terminated
    lastForm,    \* history: flow_id -> step id of its most recent form result
    resolved,    \* history: domains whose async_process_deps_reqs succeeded
    aborted      \* history: flow ids whose async_abort returned normally

vars == <<objs, _entries, HANDLERS, components, _progress, tasks, jobs,
          _sched_save, timers, saveJobs, writes, file, written, superseded,
          uuid, calls, call, flowCalls, ret, cb, added, removedIds,
          idOwner, terminated, lastForm, resolved, aborted>>

storeVars == <<objs, _entries, _sched_save, timers, superseded, jobs>>
saveVars == <<saveJobs, writes, file, written>>
flowVars == <<_progress, terminated, lastForm, resolved, aborted>>
histVars == <<added, removedIds, idOwner>>

\* ------------------------------------------------------------ ConfigEntry
\* ConfigEntry.__init__: entry_id or uuid.uuid4().hex
ConfigEntry(version, domain, title, data, source, entry_id, fresh) ==
    [entry_id |-> IF entry_id # None THEN entry_id ELSE fresh,
     version |-> version, domain |-> domain, title |-> title, data |-> data,
     source |-> source, state |-> ENTRY_STATE_NOT_LOADED]

\* ConfigEntry.async_setup, after the callback came back: the new state.
SetupStateBroken(outcome) ==
    IF outcome # "raise" /\ IsBool(outcome) THEN ENTRY_STATE_LOADED
    ELSE ENTRY_STATE_SETUP_ERROR
async_setup(outcome) ==
    LET result == IF outcome = "raise" THEN "False" ELSE outcome
    IN  IF Truthy(result) THEN ENTRY_STATE_LOADED ELSE ENTRY_STATE_SETUP_ERROR

\* ConfigEntry.async_unload: what it returns for a component with or
\* without async_unload_entry and, with it, for the callback's outcome.
UnloadAlwaysTrue(supports_unload, outcome) == "True"
async_unload(supports_unload, outcome) ==
    IF ~supports_unload THEN "False"
    ELSE IF outcome = "raise" THEN "False"
    ELSE outcome

\* ConfigEntry.as_dict
as_dict(e) ==
    [entry_id |-> e.entry_id, version |-> e.version, domain |-> e.domain,
     title |-> e.title, data |-> e.data, source |-> e.source,
     state |-> e.state]

\* ---------------------------------------------------------------- handlers
\* The handler class of a flow domain: VERSION, ENTRY_SCHEMA, step methods.
\* VERSION is "set by dev": the registered handler overrides the base class's
\* 0, so an entry made by a flow is told apart from one added directly.
VERSION == 1
ENTRY_SCHEMA(data) == data = "good"
StepMethods == {"init", "discovery", "confirm"}
\* A step's data_schema: None or a schema that coerces "raw" and rejects "bad".
Schemas == {"None", "S"}
SchemaAcceptsAll(user_input) == TRUE
SchemaAccepts(user_input) == user_input # "bad"
SchemaCoerce(user_input) == IF user_input = "raw" THEN "good" ELSE user_input

\* -------------------------------------------------------------- bookkeeping
\* ret: call c (op, argument arg: an entry id or a flow id) ended with res;
\* ref is the entry it added or removed, step the step it dispatched to.
Ret(c, op, arg, ref, res, step) ==
    [cid |-> c, op |-> op, arg |-> arg, ref |-> ref, res |-> res,
     step |-> step]
\* call: call c as issued; the fields an operation does not take are blank.
Call(c, op, arg, domain, data, source, input) ==
    [cid |-> c, op |-> op, arg |-> arg, domain |-> domain, data |-> data,
     source |-> source, input |-> input]
\* What a step method does: it returns a result dict or raises.
StepResult(type, step_id, data_schema, title, data) ==
    [type |-> type, step_id |-> step_id, data_schema |-> data_schema,
     title |-> title, data |-> data]
NoResult == StepResult("", "", "None", "", "None")
\* cb: a callback awaited by call c came back with outcome (for a step
\* method, the type of its result and the result); ref is the entry of a
\* setup or unload callback.
Cb(kind, c, ref, outcome, result) ==
    [kind |-> kind, cid |-> c, ref |-> ref, outcome |-> outcome,
     result |-> result]
Task(c, op, pc, ref, fid, domain, source, step, input, res, todo) ==
    [cid |-> c, op |-> op, pc |-> pc, ref |-> ref, fid |-> fid,
     domain |-> domain, source |-> source, step |-> step, input |-> input,
     res |-> res, todo |-> todo]
\* dict.pop(k)
DropNothing(f, k) == f
Drop(f, k) == [x \in DOMAIN f \ {k} |-> f[x]]
Range(f) == {f[x] : x \in DOMAIN f}

\* ------------------------------------------------------------ ConfigEntries
\* ConfigEntries.async_entries(domain=None) and async_entries(domain)
async_entries == [i \in 1..Len(_entries) |-> objs[_entries[i]]]
EntriesOf(domain) ==
    SelectSeq(_entries, LAMBDA r : objs[r].domain = domain)

\* ConfigEntries.async_domains: distinct domains in first-seen order
RECURSIVE DomainsFrom(_, _)
DomainsFrom(i, seen) ==
    IF i > Len(_entries) THEN << >>
    ELSE LET d == objs[_entries[i]].domain
         IN  IF d \in seen THEN DomainsFrom(i + 1, seen)
             ELSE <<d>> \o DomainsFrom(i + 1, seen \cup {d})
async_domains == DomainsFrom(1, {})

\* async_remove's search loop: index of the first entry with the id, None
\* (0) when there is none.
FoundOrFirst(entry_id) ==
    LET hits == {i \in 1..Len(_entries) : objs[_entries[i]].entry_id = entry_id}
    IN  IF hits = {} THEN (IF Len(_entries) > 0 THEN 1 ELSE None)
        ELSE CHOOSE i \in hits : \A j \in hits : i <= j
Found(entry_id) ==
    LET hits == {i \in 1..Len(_entries) : objs[_entries[i]].entry_id = entry_id}
    IN  IF hits = {} THEN None ELSE CHOOSE i \in hits : \A j \in hits : i <= j

\* list.pop(index)
Pop(seq, index) ==
    [i \in 1..(Len(seq) - 1) |-> IF i < index THEN seq[i] ELSE seq[i + 1]]

\* ConfigEntries._async_schedule_save: cancel the pending timer, start a new
\* one (handle h).
_async_schedule_save(h) ==
    /\ timers' = (timers \ {_sched_save}) \cup {h}
    /\ _sched_save' = h
    /\ superseded' = superseded \cup timers

\* FlowManager.async_get_handler, without resolve_reqs_deps: loading the
\* component registers its handler; the lookup succeeds when one is there.
HandlersAfterLookup(domain) == HANDLERS \cup ({domain} \cap FLOWS)
HandlerFound(domain) == domain \in HandlersAfterLookup(domain)
\* raise self.hass.helpers.UnknownHandler
ErrNoHandler == "hass.helpers.UnknownHandler"

\* async_add_entry's handler.ENTRY_SCHEMA(entry.data): whether it passes.
ValidationSkipped(e) == TRUE
ValidateEntry(e) == ENTRY_SCHEMA(e.data)

\* async_add_entry up to its first suspension, for the caller op (call c,
\* argument arg): handler lookup, ENTRY_SCHEMA, append, schedule the save,
\* then entry.async_setup (suspends in the plugin) or the
\* async_setup_component job.  rest: the other suspended coroutines.
async_add_entry(c, op, arg, e, res, rest) ==
    LET ref == Len(objs) + 1 IN
    /\ HANDLERS' = HandlersAfterLookup(e.domain)
    /\ IF ~HandlerFound(e.domain)
       THEN /\ ret' = Ret(c, op, arg, 0, ErrNoHandler, "")
            /\ tasks' = rest
            /\ UNCHANGED <<storeVars, histVars>>
       ELSE IF ~ValidateEntry(e)
       THEN /\ ret' = Ret(c, op, arg, 0, "Invalid", "")
            /\ tasks' = rest
            /\ UNCHANGED <<storeVars, histVars>>
       ELSE /\ objs' = Append(objs, e)
            /\ _entries' = Append(_entries, ref)
            /\ _async_schedule_save(c)
            /\ idOwner' = IF e.entry_id \in DOMAIN idOwner THEN idOwner
                          ELSE (e.entry_id :> ref) @@ idOwner
            /\ UNCHANGED removedIds
            /\ IF e.domain \in components
               THEN /\ tasks' = rest \cup
                        {Task(c, op, "setup_entry", ref, arg, e.domain,
                              e.source, "", "", res, << >>)}
                    /\ UNCHANGED <<ret, jobs, added>>
               ELSE /\ jobs' = jobs \cup {e.domain}
                    /\ tasks' = rest
                    /\ added' = added \cup {ref}
                    /\ ret' = Ret(c, op, arg, ref, res, "")

\* A caller adds an entry it constructed, with or without an entry_id.
AddEntry ==
    /\ calls - flowCalls < MaxCalls
    /\ Cardinality(tasks) < MaxTasks
    /\ \E domain \in Domains, data \in Datas, entry_id \in {None} \cup ExplicitIds :
         /\ calls' = calls + 1
         /\ call' = Call(calls + 1, "add", entry_id, domain, data,
                         SOURCE_USER, "")
         /\ uuid' = IF entry_id = None THEN uuid + 1 ELSE uuid
         /\ async_add_entry(calls + 1, "add", entry_id,
                ConfigEntry(0, domain, "Direct", data, SOURCE_USER, entry_id,
                            uuid + 1),
                "ok", tasks)
    /\ UNCHANGED <<components, flowVars, cb, flowCalls, saveVars>>

\* async_remove's result dict, as the value of 'require_restart'.
RequireRestart(unloaded) == IF Truthy(unloaded) THEN "False" ELSE "True"

\* The entry objects after async_remove and async_unload handled the entry
\* ref: neither assigns a field of it.
ObjsStateReset(ref) == [objs EXCEPT ![ref].state = ENTRY_STATE_NOT_LOADED]
ObjsAfterUnload(ref) == objs

\* async_remove up to its first suspension: search, pop, schedule the save,
\* then entry.async_unload, which returns at once for a component without
\* async_unload_entry and otherwise suspends in the plugin.
async_remove(entry_id) ==
    LET c == calls + 1
        found == Found(entry_id)
    IN
    /\ calls' = c
    /\ call' = Call(c, "remove", entry_id, "", "", "", "")
    /\ IF found = None
       THEN /\ ret' = Ret(c, "remove", entry_id, 0, "UnknownEntry", "")
            /\ UNCHANGED <<storeVars, tasks, histVars>>
       ELSE /\ _entries' = Pop(_entries, found)
            /\ _async_schedule_save(c)
            /\ objs' = ObjsAfterUnload(_entries[found])
            /\ UNCHANGED <<jobs, added, idOwner>>
            /\ \E supports_unload \in BOOLEAN :
                 IF ~supports_unload
                 THEN /\ ret' = Ret(c, "remove", entry_id, _entries[found],
                                    RequireRestart(async_unload(FALSE, "None")),
                                    "")
                      /\ removedIds' = removedIds \cup {entry_id}
                      /\ UNCHANGED tasks
                 ELSE /\ tasks' = tasks \cup
                          {Task(c, "remove", "unload_entry", _entries[found],
                                entry_id, objs[_entries[found]].domain, "", "",
                                "", "", << >>)}
                      /\ UNCHANGED <<ret, removedIds>>

Remove ==
    /\ calls - flowCalls < MaxCalls
    /\ Cardinality(tasks) < MaxTasks
    /\ \E entry_id \in {objs[r].entry_id : r \in DOMAIN objs} \cup ExplicitIds :
         async_remove(entry_id)
    /\ UNCHANGED <<HANDLERS, components, flowVars, uuid, cb, flowCalls,
                   saveVars>>

\* component.async_unload_entry comes back: async_unload returns its value
\* (False when it raised) and async_remove returns its result dict.
UnloadEntryReturn ==
    \E t \in tasks, outcome \in CallbackOutcomes :
      /\ t.pc = "unload_entry"
      /\ tasks' = tasks \ {t}
      /\ cb' = Cb("unload", t.cid, t.ref, outcome, NoResult)
      /\ ret' = Ret(t.cid, "remove", t.fid, t.ref,
                    RequireRestart(async_unload(TRUE, outcome)), "")
      /\ removedIds' = removedIds \cup {t.fid}
      /\ objs' = ObjsAfterUnload(t.ref)
      /\ UNCHANGED <<_entries, _sched_save, timers, superseded, jobs,
                     HANDLERS, components, flowVars, uuid, calls, call,
                     flowCalls, added, idOwner, saveVars>>

\* component.async_setup_entry comes back: async_setup sets the state, and
\* the coroutine that awaited it goes on: async_add_entry returns (to its
\* caller, or through _async_handle_step to the flow's caller), the
\* component setup turns to its next entry and at the end marks the
\* component as set up.
SetupEntryReturn ==
    \E t \in tasks, outcome \in CallbackOutcomes :
      /\ t.pc = "setup_entry"
      /\ objs' = [objs EXCEPT ![t.ref].state = async_setup(outcome)]
      /\ cb' = Cb("setup", t.cid, t.ref, outcome, NoResult)
      /\ IF t.op = "setup_component"
         THEN /\ IF t.todo = << >>
                 THEN /\ tasks' = tasks \ {t}
                      /\ components' = components \cup {t.domain}
                 ELSE /\ tasks' = (tasks \ {t}) \cup
                          {[t EXCEPT !.ref = Head(t.todo),
                                     !.todo = Tail(t.todo)]}
                      /\ UNCHANGED components
              /\ UNCHANGED <<ret, added>>
         ELSE /\ tasks' = tasks \ {t}
              /\ ret' = Ret(t.cid, t.op, t.fid, t.ref, t.res, "")
              /\ added' = added \cup {t.ref}
              /\ UNCHANGED components
      /\ UNCHANGED <<_entries, _sched_save, timers, superseded, jobs,
                     HANDLERS, flowVars, uuid, calls, call, flowCalls,
                     removedIds, idOwner, saveVars>>

\* The async_setup_component job runs: the component is set up (or fails to),
\* then each of its entries in turn, then the domain joins
\* hass.config.components.
SetupComponentJob ==
    \E domain \in jobs, ok \in BOOLEAN :
      /\ Cardinality(tasks) < MaxTasks
      /\ ~\E t \in tasks : t.op = "setup_component" /\ t.domain = domain
      /\ jobs' = jobs \ {domain}
      /\ LET todo == EntriesOf(domain) IN
         IF ~ok \/ domain \in components
         THEN UNCHANGED <<tasks, components>>
         ELSE IF todo = << >>
         THEN /\ components' = components \cup {domain}
              /\ UNCHANGED tasks
         ELSE /\ tasks' = tasks \cup
                  {Task(0, "setup_component", "setup_entry", Head(todo), 0,
                        domain, "", "", "", "", Tail(todo))}
              /\ UNCHANGED components
      /\ UNCHANGED <<objs, _entries, _sched_save, timers, superseded,
                     HANDLERS, flowVars, uuid, calls, call, flowCalls, ret, cb,
                     histVars, saveVars>>

\* The collection as _async_save serializes it: as_dict of every entry.
Serialized(refs) == [i \in 1..Len(refs) |-> as_dict(objs[refs[i]])]

\* A call_later handle comes due: the loop calls
\* hass.async_add_job(self._async_save), which queues the coroutine.
TimerFire ==
    \E h \in timers :
      /\ timers' = timers \ {h}
      /\ saveJobs' = saveJobs \cup {h}
      /\ UNCHANGED <<objs, _entries, _sched_save, superseded, jobs, writes,
                     file, written, HANDLERS, components, flowVars, tasks,
                     uuid, calls, call, flowCalls, ret, cb, histVars>>

\* The queued _async_save starts: it clears _sched_save, serializes the
\* collection and hands save_json to the executor.
SaveStart ==
    \E h \in saveJobs :
      /\ saveJobs' = saveJobs \ {h}
      /\ _sched_save' = None
      /\ writes' = writes \cup {[h |-> h, data |-> Serialized(_entries)]}
      /\ UNCHANGED <<objs, _entries, timers, superseded, jobs, file, written,
                     HANDLERS, components, flowVars, tasks, uuid, calls, call,
                     flowCalls, ret, cb, histVars>>

\* A save_json job of the executor pool ends: the file holds its data.
WriteDone ==
    \E w \in writes :
      /\ writes' = writes \ {w}
      /\ file' = w.data
      /\ written' = written \cup {w}
      /\ UNCHANGED <<storeVars, saveJobs, HANDLERS, components, flowVars,
                     tasks, uuid, calls, call, flowCalls, ret, cb, histVars>>

\* -------------------------------------------------------------- FlowManager
\* The results of a step method.  A form names the next step (the handler
\* has no step "missing") and its schema; "other" is a result of a type that
\* is none of the three, "raise" an exception.
StepResults ==
    {StepResult(RESULT_TYPE_FORM, s, d, "Form", "None") :
        s \in {"init", "confirm", "missing"}, d \in Schemas}
    \cup {StepResult(RESULT_TYPE_CREATE_ENTRY, "", "None", "Kitchen", d) :
        d \in Datas}
    \cup {StepResult(t, "", "None", "", "None") :
        t \in {RESULT_TYPE_ABORT, "other", "raise"}}

\* A flow as async_init builds it: cur_step is None (the empty tuple here)
\* until a form result sets it to (step_id, data_schema).
Flow(domain, source) ==
    [domain |-> domain, source |-> source, cur_step |-> << >>]

\* async_init: the first step of a flow started with the source.
InitialStep(source) == IF source = SOURCE_USER THEN "init" ELSE source

\* _async_handle_step on a form result: the flow's new cur_step.
CurStepSwapped(result) == <<result.data_schema, result.step_id>>
CurStep(result) == <<result.step_id, result.data_schema>>

\* _async_handle_step on a create_entry result: the entry it constructs.
FlowEntryUserSource(t, result, fresh) ==
    ConfigEntry(VERSION, t.domain, result.title, result.data, SOURCE_USER,
                None, fresh)
FlowEntry(t, result, fresh) ==
    ConfigEntry(VERSION, t.domain, result.title, result.data, t.source, None,
                fresh)

\* _async_handle_step on an abort or create_entry result: the flow is popped
\* before the entry is built and async_add_entry called.
FinishFlowAfterAdd(fid, result) ==
    IF result.type = RESULT_TYPE_CREATE_ENTRY /\ ~ENTRY_SCHEMA(result.data)
    THEN _progress
    ELSE Drop(_progress, fid)
FinishFlow(fid, result) == Drop(_progress, fid)
\* self._progress.pop(flow.flow_id) has no default: a flow that is no longer
\* in _progress raises KeyError.
PopWithDefault(fid) == FALSE
PopRaises(fid) == fid \notin DOMAIN _progress

\* _async_handle_step up to the step method's call: a flow whose handler
\* lacks the method is popped and UnknownStep raised; otherwise the
\* coroutine suspends in the step method.  progress: _progress at the call.
HandleStepKeepsFlow(c, op, fid, flow, step_id, user_input, progress, rest) ==
    IF step_id \notin StepMethods
    THEN /\ _progress' = progress
         /\ ret' = Ret(c, op, fid, 0, "UnknownStep", step_id)
         /\ tasks' = rest
         /\ UNCHANGED terminated
    ELSE /\ _progress' = progress
         /\ tasks' = rest \cup
               {Task(c, op, "step", 0, fid, flow.domain, flow.source, step_id,
                     user_input, "", << >>)}
         /\ UNCHANGED <<ret, terminated>>
_async_handle_step(c, op, fid, flow, step_id, user_input, progress, rest) ==
    IF step_id \notin StepMethods
    THEN /\ _progress' = Drop(progress, fid)
         /\ terminated' = terminated \cup {fid}
         /\ ret' = Ret(c, op, fid, 0, "UnknownStep", step_id)
         /\ tasks' = rest
    ELSE /\ _progress' = progress
         /\ tasks' = rest \cup
               {Task(c, op, "step", 0, fid, flow.domain, flow.source, step_id,
                     user_input, "", << >>)}
         /\ UNCHANGED <<ret, terminated>>

\* async_init after the handler is there: draw the flow id, put the flow in
\* _progress and handle its first step.
StartFlow(c, domain, source, rest) ==
    LET flow_id == uuid + 1
        flow == Flow(domain, source)
    IN  /\ uuid' = uuid + 1
        /\ _async_handle_step(c, "init", flow_id, flow, InitialStep(source),
                              "None", (flow_id :> flow) @@ _progress, rest)

\* async_init: async_get_handler(domain, resolve_reqs_deps=True).  A
\* registered handler is returned at once; otherwise the component is
\* loaded, a missing handler raises, and async_process_deps_reqs is awaited.
async_init ==
    /\ flowCalls < MaxFlowCalls
    /\ flowCalls' = flowCalls + 1
    /\ Cardinality(tasks) < MaxTasks
    /\ \E domain \in Domains, source \in Sources :
         LET c == calls + 1 IN
         /\ calls' = c
         /\ call' = Call(c, "init", 0, domain, "", source, "None")
         /\ HANDLERS' = HandlersAfterLookup(domain)
         /\ IF domain \in HANDLERS
            THEN StartFlow(c, domain, source, tasks)
            ELSE IF ~HandlerFound(domain)
            THEN /\ ret' = Ret(c, "init", 0, 0, ErrNoHandler, "")
                 /\ UNCHANGED <<tasks, uuid, _progress, terminated>>
            ELSE /\ tasks' = tasks \cup
                       {Task(c, "init", "deps", 0, 0, domain, source, "", "",
                             "", << >>)}
                 /\ UNCHANGED <<ret, uuid, _progress, terminated>>
    /\ UNCHANGED <<storeVars, components, cb, histVars, lastForm, saveVars,
                   resolved, aborted>>

\* async_process_deps_reqs comes back: its failure ends async_init, its
\* success lets async_init start the flow.
DepsReturn ==
    \E t \in tasks, ok \in BOOLEAN :
      /\ t.pc = "deps"
      /\ IF ok
         THEN /\ resolved' = resolved \cup {t.domain}
              /\ StartFlow(t.cid, t.domain, t.source, tasks \ {t})
         ELSE /\ ret' = Ret(t.cid, "init", 0, 0, "HomeAssistantError", "")
              /\ tasks' = tasks \ {t}
              /\ UNCHANGED <<uuid, _progress, terminated, resolved>>
      /\ UNCHANGED <<storeVars, HANDLERS, components, calls, call, flowCalls,
                     cb, histVars, lastForm, saveVars, aborted>>

\* async_configure: unknown flow ids raise UnknownFlow; the input is run
\* through the current step's schema when both are there; then the step
\* named by cur_step is handled.  One caller drives a flow: no configure
\* while a step of the same flow is in flight.
async_configure ==
    /\ flowCalls < MaxFlowCalls
    /\ flowCalls' = flowCalls + 1
    /\ Cardinality(tasks) < MaxTasks
    /\ \E flow_id \in DOMAIN _progress \cup terminated \cup {None},
          user_input \in Inputs :
         LET c == calls + 1 IN
         /\ calls' = c
         /\ call' = Call(c, "configure", flow_id, "", "", "", user_input)
         /\ ~\E t \in tasks : t.pc = "step" /\ t.fid = flow_id
         /\ IF flow_id \notin DOMAIN _progress
            THEN /\ ret' = Ret(c, "configure", flow_id, 0, "UnknownFlow", "")
                 /\ UNCHANGED <<tasks, _progress, terminated>>
            ELSE LET flow == _progress[flow_id] IN
                 IF flow.cur_step = << >>
                 THEN /\ ret' = Ret(c, "configure", flow_id, 0, "TypeError",
                                    "")
                      /\ UNCHANGED <<tasks, _progress, terminated>>
                 ELSE IF /\ flow.cur_step[2] # "None"
                         /\ user_input # "None"
                         /\ ~SchemaAccepts(user_input)
                 THEN /\ ret' = Ret(c, "configure", flow_id, 0, "Invalid", "")
                      /\ UNCHANGED <<tasks, _progress, terminated>>
                 ELSE _async_handle_step(c, "configure", flow_id, flow,
                        flow.cur_step[1],
                        IF flow.cur_step[2] # "None" /\ user_input # "None"
                        THEN SchemaCoerce(user_input) ELSE user_input,
                        _progress, tasks)
    /\ UNCHANGED <<storeVars, HANDLERS, components, uuid, cb, histVars,
                   lastForm, saveVars, resolved, aborted>>

\* async_abort: pop the flow, UnknownFlow when it is not in progress.
async_abort ==
    /\ flowCalls < MaxFlowCalls
    /\ flowCalls' = flowCalls + 1
    /\ \E flow_id \in DOMAIN _progress \cup terminated \cup {None} :
         LET c == calls + 1 IN
         /\ calls' = c
         /\ call' = Call(c, "abort", flow_id, "", "", "", "")
         /\ IF flow_id \notin DOMAIN _progress
            THEN /\ ret' = Ret(c, "abort", flow_id, 0, "UnknownFlow", "")
                 /\ UNCHANGED <<_progress, terminated, aborted>>
            ELSE /\ _progress' = Drop(_progress, flow_id)
                 /\ terminated' = terminated \cup {flow_id}
                 /\ aborted' = aborted \cup {flow_id}
                 /\ ret' = Ret(c, "abort", flow_id, 0, "ok", "")
    /\ UNCHANGED <<storeVars, HANDLERS, components, tasks, uuid, cb,
                   histVars, lastForm, saveVars, resolved>>

\* The step method comes back and _async_handle_step goes on: an exception
\* and a result of no known type are raised to the caller; a form sets
\* cur_step on the flow object; abort and create_entry pop the flow (a
\* KeyError when it is no longer in _progress), and create_entry builds the
\* entry and awaits async_add_entry.
StepReturn ==
    \E t \in tasks, result \in StepResults :
      /\ t.pc = "step"
      /\ cb' = Cb("step", t.cid, 0, result.type, result)
      /\ IF result.type = "raise" \/ result.type = "other"
         THEN /\ ret' = Ret(t.cid, t.op, t.fid, 0,
                            IF result.type = "raise" THEN "Exception"
                            ELSE "ValueError", t.step)
              /\ tasks' = tasks \ {t}
              /\ UNCHANGED <<storeVars, HANDLERS, flowVars, uuid, histVars>>
         ELSE IF result.type = RESULT_TYPE_FORM
         THEN /\ _progress' = IF t.fid \in DOMAIN _progress
                               THEN [_progress EXCEPT
                                       ![t.fid].cur_step = CurStep(result)]
                               ELSE _progress
              /\ lastForm' = (t.fid :> result.step_id) @@ lastForm
              /\ ret' = Ret(t.cid, t.op, t.fid, 0, RESULT_TYPE_FORM, t.step)
              /\ tasks' = tasks \ {t}
              /\ UNCHANGED <<storeVars, HANDLERS, terminated, uuid, histVars,
                             resolved, aborted>>
         ELSE IF PopRaises(t.fid)
         THEN /\ ret' = Ret(t.cid, t.op, t.fid, 0, "KeyError", t.step)
              /\ tasks' = tasks \ {t}
              /\ UNCHANGED <<storeVars, HANDLERS, flowVars, uuid, histVars>>
         ELSE /\ _progress' = FinishFlow(t.fid, result)
              /\ terminated' = terminated \cup {t.fid}
              /\ UNCHANGED <<lastForm, resolved, aborted>>
              /\ IF result.type = RESULT_TYPE_ABORT
                 THEN /\ ret' = Ret(t.cid, t.op, t.fid, 0, RESULT_TYPE_ABORT,
                                    t.step)
                      /\ tasks' = tasks \ {t}
                      /\ UNCHANGED <<storeVars, HANDLERS, uuid, histVars>>
                 ELSE /\ uuid' = uuid + 1
                      /\ async_add_entry(t.cid, t.op, t.fid,
                            FlowEntry(t, result, uuid + 1),
                            RESULT_TYPE_CREATE_ENTRY, tasks \ {t})
      /\ UNCHANGED <<components, calls, call, flowCalls, saveVars>>

\* ------------------------------------------------------------ specification
NoRet == Ret(0, "", 0, 0, "", "")
NoCall == Call(0, "", 0, "", "", "", "")
NoCb == Cb("", 0, 0, "", NoResult)

Init ==
    /\ objs = << >>
    /\ _entries = << >>
    /\ HANDLERS = {}
    /\ components = {}
    /\ _progress = << >>
    /\ tasks = {}
    /\ jobs = {}
    /\ _sched_save = None
    /\ timers = {}
    /\ saveJobs = {}
    /\ writes = {}
    /\ file = << >>
    /\ written = {}
    /\ superseded = {}
    /\ uuid = 0
    /\ calls = 0
    /\ call = NoCall
    /\ flowCalls = 0
    /\ ret = NoRet
    /\ cb = NoCb
    /\ added = {}
    /\ removedIds = {}
    /\ idOwner = << >>
    /\ terminated = {}
    /\ lastForm = << >>
    /\ resolved = {}
    /\ aborted = {}

NextStore ==
    \/ AddEntry
    \/ Remove
    \/ SetupEntryReturn
    \/ UnloadEntryReturn
    \/ SetupComponentJob

SpecStore == Init /\ [][NextStore]_vars

\* The store with its debounced save: the API calls, the unload callback,
\* the timer, the save job and the executor's writes.
NextSave ==
    \/ AddEntry
    \/ Remove
    \/ UnloadEntryReturn
    \/ TimerFire
    \/ SaveStart
    \/ WriteDone

SpecSave == Init /\ [][NextSave]_vars

\* The loop runs due timers and queued jobs, and the executor its jobs.
SpecSaveFair ==
    /\ SpecSave
    /\ WF_vars(TimerFire)
    /\ WF_vars(SaveStart)
    /\ WF_vars(WriteDone)

Next ==
    \/ AddEntry
    \/ Remove
    \/ SetupEntryReturn
    \/ UnloadEntryReturn
    \/ SetupComponentJob
    \/ async_init
    \/ DepsReturn
    \/ async_configure
    \/ async_abort
    \/ StepReturn
    \/ TimerFire
    \/ SaveStart
    \/ WriteDone

Spec == Init /\ [][Next]_vars

NextFlow ==
    \/ SetupEntryReturn
    \/ SetupComponentJob
    \/ async_init
    \/ DepsReturn
    \/ async_configure
    \/ async_abort
    \/ StepReturn

SpecFlow == Init /\ [][NextFlow]_vars

\* Handler lookup from both of its callers: entries added directly and
\* flows started, up to the call of the flow's initial step.
NextHandler ==
    \/ AddEntry
    \/ async_init
    \/ DepsReturn

SpecHandler == Init /\ [][NextHandler]_vars

\* ------------------------------------------------------------------ claims
\* No API call is in flight: every call issued has run to completion.
ApiQuiescent == \A t \in tasks : t.op = "setup_component"

\* The ascending sequence of a set of numbers.
SeqOf(S) ==
    [i \in 1..Cardinality(S) |->
        CHOOSE x \in S : Cardinality({y \in S : y < x}) = i - 1]

\* The entries whose add succeeded minus those whose remove succeeded, in
\* insertion order (object refs are drawn in insertion order).
AddedMinusRemoved ==
    SeqOf({r \in added : objs[r].entry_id \notin removedIds})

\* No entry id that was in the collection appears on a different entry.
NoIdReuse ==
    \A i \in 1..Len(_entries) :
        idOwner[objs[_entries[i]].entry_id] = _entries[i]

\* C1: once every addEntry and removeEntry call has run to completion,
\* entries() is exactly the entries added minus those removed, in insertion
\* order, and no entry id that was ever in the collection appears on a
\* different entry.
C1_EntriesAddedMinusRemoved ==
    ApiQuiescent =>
        /\ async_entries =
              [i \in 1..Len(AddedMinusRemoved) |-> objs[AddedMinusRemoved[i]]]
        /\ NoIdReuse

\* The call issued in this step, and whether it is an op call.
Issued(op) == call'.cid # call.cid /\ call'.op = op
\* A call of kind op ended in this step.
Ended(op) == ret'.cid # ret.cid /\ ret'.op = op
\* Some entry of the collection carries the id.
HasId(entry_id) ==
    \E i \in 1..Len(_entries) : objs[_entries[i]].entry_id = entry_id

\* C2: removeEntry with an id that matches no entry fails with UnknownEntry
\* and changes nothing: no entry leaves the collection, no unload callback
\* is invoked, no save is scheduled.
C2_RemoveUnknownFails ==
    [][(Issued("remove") /\ ~HasId(call'.arg)) =>
        /\ ret' = Ret(call'.cid, "remove", call'.arg, 0, "UnknownEntry", "")
        /\ UNCHANGED <<_entries, objs, tasks, cb, _sched_save, timers>>]_vars
C2_Witness ==
    /\ ret.op = "remove"
    /\ ret.res = "UnknownEntry"
    /\ Len(_entries) > 0

\* C3: addEntry of an entry whose data fails the ENTRY_SCHEMA of its
\* domain's handler raises the validation error, appends nothing and
\* triggers no setup of the entry (no setup callback awaited) or of its
\* component (no job handed over), and schedules no save.
C3_AddInvalidFails ==
    [][(Issued("add") /\ call'.domain \in FLOWS /\ call'.data = "bad") =>
        /\ ret' = Ret(call'.cid, "add", call'.arg, 0, "Invalid", "")
        /\ UNCHANGED <<_entries, objs, tasks, jobs, components, _sched_save,
                       timers>>]_vars
C3_Witness ==
    /\ ret.op = "add"
    /\ ret.res = "Invalid"
    /\ Len(_entries) > 0

\* C8: removeEntry of an existing id takes the entry out of the collection
\* before unload is attempted (it is out while the unload callback runs) and
\* whatever the outcome, and its result has require_restart false exactly
\* when the component has an unload callback that returned a true value
\* without raising.
C8_RemoveThenUnload ==
    /\ [](\A t \in tasks :
            t.pc = "unload_entry" => t.ref \notin Range(_entries))
    /\ [][(Issued("remove") /\ HasId(call'.arg)) =>
            LET i == CHOOSE i \in 1..Len(_entries) :
                       /\ objs[_entries[i]].entry_id = call'.arg
                       /\ \A j \in 1..(i - 1) :
                             objs[_entries[j]].entry_id # call'.arg
            IN  _entries' = SubSeq(_entries, 1, i - 1)
                              \o SubSeq(_entries, i + 1, Len(_entries))]_vars
    /\ [][(Ended("remove") /\ ret'.res # "UnknownEntry") =>
            /\ ret'.ref \notin Range(_entries')
            /\ ret'.res \in {"True", "False"}
            /\ ret'.res = "False" <=>
                  /\ cb'.kind = "unload"
                  /\ cb'.cid = ret'.cid
                  /\ cb'.outcome \in {"True", "str"}]_vars
C8_Witness ==
    /\ ret.op = "remove"
    /\ ret.res = "False"
    /\ cb.kind = "unload"
    /\ cb.cid = ret.cid
C8_WitnessRaised ==
    /\ ret.op = "remove"
    /\ ret.res = "True"
    /\ cb.kind = "unload"
    /\ cb.cid = ret.cid
    /\ cb.outcome = "raise"

\* A removeEntry call handles entry ref in this step: it is issued and pops
\* the entry, or its unload callback comes back and it ends.
RemoveHandles(ref) ==
    \/ Issued("remove") /\ HasId(call'.arg) /\ ref = _entries[Found(call'.arg)]
    \/ Ended("remove") /\ ret'.ref = ref

\* C9 as claimed: an entry in state loaded or setup_error is in state
\* not_loaded once removeEntry has attempted its unload.
C9_UnloadResetsState ==
    [][\A ref \in DOMAIN objs :
        (Ended("remove") /\ ret'.ref = ref) =>
            objs'[ref].state = ENTRY_STATE_NOT_LOADED]_vars
\* C9 as amended: removeEntry and the unload it attempts leave the state of
\* the entry as it was, whatever the outcome of the unload.
C9_UnloadKeepsState ==
    [][\A ref \in DOMAIN objs :
        RemoveHandles(ref) => objs'[ref].state = objs[ref].state]_vars
C9_Witness ==
    /\ ret.op = "remove"
    /\ ret.res \in {"True", "False"}
    /\ objs[ret.ref].state = ENTRY_STATE_LOADED

\* C10: whatever the setup callback does, setup returns normally (the
\* addEntry that awaited it ends without an error) and leaves the entry
\* loaded exactly when the callback returned a truthy value without raising,
\* and in setup_error otherwise.
C10_SetupNeverFails ==
    cb.kind = "setup" =>
        /\ objs[cb.ref].state =
              IF cb.outcome \in {"True", "str"} THEN ENTRY_STATE_LOADED
              ELSE ENTRY_STATE_SETUP_ERROR
        /\ (cb.cid # 0 /\ ret.cid = cb.cid) =>
              ret.res \in {"ok", RESULT_TYPE_CREATE_ENTRY}
C10_Witness ==
    /\ cb.kind = "setup"
    /\ cb.outcome = "raise"
    /\ ret.cid = cb.cid
    /\ ret.op = "add"
    /\ objs[cb.ref].state = ENTRY_STATE_SETUP_ERROR

\* The step method awaited by task t came back in this step.
StepReturned(t) ==
    /\ t \in tasks
    /\ t.pc = "step"
    /\ t \notin tasks'
    /\ cb'.kind = "step"
    /\ cb'.cid = t.cid

\* This step appended exactly one entry, made of the step result in cb' and
\* of the flow of task t, and left the other entries alone.
AppendedFlowEntry(t) ==
    LET flow == _progress[t.fid]
        result == cb'.result
        ref == Len(objs) + 1
    IN  /\ Len(objs') = ref
        /\ \A r \in DOMAIN objs : objs'[r] = objs[r]
        /\ _entries' = Append(_entries, ref)
        /\ objs'[ref].title = result.title
        /\ objs'[ref].data = result.data
        /\ objs'[ref].domain = flow.domain
        /\ objs'[ref].source = flow.source
        /\ objs'[ref].version = VERSION

\* C4 as claimed: whenever a step of an in-progress flow returns
\* create_entry, exactly one entry with the result's title and data and the
\* flow's domain, source and handler version is appended, and the flow id
\* is out of the in-progress set right afterwards.
C4_CreateEntryAlwaysAppends ==
    [][\A t \in tasks :
        (/\ StepReturned(t)
         /\ cb'.outcome = RESULT_TYPE_CREATE_ENTRY
         /\ t.fid \in DOMAIN _progress) =>
            /\ AppendedFlowEntry(t)
            /\ t.fid \notin DOMAIN _progress']_vars
\* C4 as amended: the entry is appended when the result's data passes the
\* handler's ENTRY_SCHEMA; when it fails, nothing is appended and the
\* validation error is raised to the caller; either way the flow id is out
\* of the in-progress set right afterwards.
C4_CreateEntryAppendsValid ==
    [][\A t \in tasks :
        (/\ StepReturned(t)
         /\ cb'.outcome = RESULT_TYPE_CREATE_ENTRY
         /\ t.fid \in DOMAIN _progress) =>
            /\ t.fid \notin DOMAIN _progress'
            /\ IF cb'.result.data = "good"
               THEN AppendedFlowEntry(t)
               ELSE /\ UNCHANGED <<_entries, objs>>
                    /\ ret' = Ret(t.cid, t.op, t.fid, 0, "Invalid", "")]_vars
C4_Witness ==
    /\ ret.op = "init"
    /\ ret.res = RESULT_TYPE_CREATE_ENTRY
    /\ ret.ref \in Range(_entries)
    /\ objs[ret.ref].source = SOURCE_DISCOVERY
    /\ ret.arg \in terminated

\* Call c dispatched flow fid to the step in this step: it is suspended in
\* the step method, or the handler lacks the method.
Dispatched(c, fid, step) ==
    \/ \E t \in tasks' :
          t.cid = c /\ t.pc = "step" /\ t.fid = fid /\ t.step = step
    \/ ret' = Ret(c, "configure", fid, 0, "UnknownStep", step)

\* C5: when a step of a flow in progress returns a form, the flow stays in
\* progress with the result's (step id, schema) as cur_step, and the next
\* configure of the flow dispatches to the step named by its most recent
\* form result (unless its input fails the schema).
C5_FormSetsNextStep ==
    /\ [][\A t \in tasks :
            (/\ StepReturned(t)
             /\ cb'.outcome = RESULT_TYPE_FORM
             /\ t.fid \in DOMAIN _progress) =>
                /\ t.fid \in DOMAIN _progress'
                /\ _progress'[t.fid].cur_step =
                      <<cb'.result.step_id, cb'.result.data_schema>>]_vars
    /\ [][(/\ Issued("configure")
           /\ call'.arg \in DOMAIN _progress
           /\ call'.arg \in DOMAIN lastForm) =>
              IF /\ _progress[call'.arg].cur_step[2] # "None"
                 /\ call'.input = "bad"
              THEN ret' = Ret(call'.cid, "configure", call'.arg, 0,
                              "Invalid", "")
              ELSE Dispatched(call'.cid, call'.arg, lastForm[call'.arg])]_vars
C5_Witness ==
    \E t \in tasks :
      /\ t.op = "configure"
      /\ t.pc = "step"
      /\ t.step = "confirm"
      /\ t.fid \in DOMAIN lastForm
      /\ lastForm[t.fid] = "confirm"

\* C6: a flow whose step returned create_entry or abort, or that was
\* aborted, is out of the in-progress set and stays out; configure and abort
\* on an id that is not in progress fail with UnknownFlow, invoke no step
\* and change neither the entries nor the flows.
C6_TerminatedFlowIsUnknown ==
    /\ [][\A t \in tasks :
            (/\ StepReturned(t)
             /\ cb'.outcome \in {RESULT_TYPE_CREATE_ENTRY, RESULT_TYPE_ABORT}) =>
                t.fid \notin DOMAIN _progress' /\ t.fid \in terminated']_vars
    /\ [][Issued("abort") =>
            /\ call'.arg \notin DOMAIN _progress'
            /\ call'.arg \in DOMAIN _progress => call'.arg \in terminated']_vars
    /\ [][terminated' \cap DOMAIN _progress' = {}]_vars
    /\ [][((Issued("configure") \/ Issued("abort"))
            /\ call'.arg \notin DOMAIN _progress) =>
              /\ ret' = Ret(call'.cid, call'.op, call'.arg, 0, "UnknownFlow",
                            "")
              /\ UNCHANGED <<tasks, cb, _entries, objs, _progress>>]_vars
C6_Witness ==
    /\ ret.op = "configure"
    /\ ret.res = "UnknownFlow"
    /\ ret.arg \in terminated
    /\ cb.kind = "step"
    /\ cb.outcome = RESULT_TYPE_ABORT

\* async_init of task t got its handler in this step and started the flow.
DepsResolved(t) ==
    /\ t \in tasks
    /\ t.pc = "deps"
    /\ t \notin tasks'
    /\ ~(ret'.cid = t.cid /\ ret'.res = "HomeAssistantError")

\* Call c (op) dispatched the flow to a step the handler lacks: UnknownStep
\* is raised, the flow is out of the in-progress set, no entry is created.
UnknownStepRaised(c, op, fid, step) ==
    /\ ret' = Ret(c, op, fid, 0, "UnknownStep", step)
    /\ fid \notin DOMAIN _progress'
    /\ fid \in terminated'
    /\ UNCHANGED <<_entries, objs>>

\* C7: when start or configure dispatches to a step the handler does not
\* implement, the flow is dropped from the in-progress set and UnknownStep
\* raised; no entry is created, no step method runs, and the flow id never
\* comes back.
C7_UnknownStepDropsFlow ==
    /\ [](\A t \in tasks : t.pc = "step" => t.step \in StepMethods)
    /\ [][(/\ Issued("init")
           /\ call'.domain \in HANDLERS
           /\ call'.source \notin {SOURCE_USER} \cup StepMethods) =>
              UnknownStepRaised(call'.cid, "init", uuid + 1, call'.source)]_vars
    /\ [][\A t \in tasks :
            (DepsResolved(t)
             /\ t.source \notin {SOURCE_USER} \cup StepMethods) =>
                UnknownStepRaised(t.cid, "init", uuid + 1, t.source)]_vars
    /\ [][(/\ Issued("configure")
           /\ call'.arg \in DOMAIN lastForm
           /\ call'.arg \in DOMAIN _progress
           /\ lastForm[call'.arg] \notin StepMethods
           /\ ~(/\ _progress[call'.arg].cur_step[2] # "None"
                /\ call'.input = "bad")) =>
              UnknownStepRaised(call'.cid, "configure", call'.arg,
                                lastForm[call'.arg])]_vars
    /\ [][terminated \subseteq terminated'
          /\ terminated' \cap DOMAIN _progress' = {}]_vars
C7_Witness ==
    /\ ret.op = "configure"
    /\ ret.res = "UnknownStep"
    /\ ret.step = "missing"
    /\ ret.arg \in terminated
    /\ ret.arg \notin DOMAIN _progress
C7_WitnessStart ==
    /\ ret.op = "init"
    /\ ret.res = "UnknownStep"
    /\ ret.step = "cloud"

\* The handles that came due, and every handle a save was scheduled with.
Fired == saveJobs \cup {w.h : w \in writes \cup written}
Scheduled == timers \cup superseded \cup Fired

\* C11: of two save-scheduling operations less than the save delay apart
\* (the first one's timer is still pending at the second) only the second
\* produces a write, and the write of the latest operation contains the
\* collection as that operation left it.
C11_CoalescedWrite ==
    /\ superseded \cap Fired = {}
    /\ \A w \in writes \cup written :
          (\A h \in Scheduled : h <= w.h) => w.data = Serialized(_entries)

\* C12: the store has at most one outstanding save timer.
C12_OneOutstandingTimer == Cardinality(timers) <= 1

\* Nothing of the save protocol is pending: no timer, no queued save job,
\* no write in the executor.
SaveQuiescent == timers = {} /\ saveJobs = {} /\ writes = {}

\* C17: once the timers have fired and the save jobs and writes have ended
\* (which fairness of the timer and of the jobs brings about after the last
\* addEntry/removeEntry), the persisted file equals the serialization of the
\* in-memory collection.
C17_FileMatchesCollection ==
    SaveQuiescent => file = Serialized(_entries)

\* C13: whenever the initial step of a flow started with start(domain) runs,
\* the dependency/requirement resolver has completed for that domain,
\* whatever preceded the start.
C13_DepsBeforeInitialStep ==
    \A t \in tasks :
        (t.op = "init" /\ t.pc = "step") => t.domain \in resolved

\* C14: a handler lookup (from start or addEntry) for a domain that has no
\* handler, also after its component was loaded, fails with the error kind
\* UnknownHandler; no flow joins the in-progress set and no entry is added.
C14_NoHandlerRaisesUnknownHandler ==
    [][((Issued("add") \/ Issued("init")) /\ call'.domain \notin FLOWS) =>
        /\ ret' = Ret(call'.cid, call'.op, call'.arg, 0, "UnknownHandler", "")
        /\ UNCHANGED <<_entries, objs, _progress>>]_vars

\* C15: configure on a flow in progress whose current step declared a
\* schema, with input that fails the schema, raises the validation error to
\* the caller; no step method is invoked and the flow stays in progress with
\* the same cur_step; the entry collection is unchanged.
C15_InvalidInputKeepsFlow ==
    [][(/\ Issued("configure")
        /\ call'.arg \in DOMAIN _progress
        /\ _progress[call'.arg].cur_step # << >>
        /\ _progress[call'.arg].cur_step[2] # "None"
        /\ call'.input = "bad") =>
           /\ ret' = Ret(call'.cid, "configure", call'.arg, 0, "Invalid", "")
           /\ call'.arg \in DOMAIN _progress'
           /\ _progress'[call'.arg] = _progress[call'.arg]
           /\ UNCHANGED <<_progress, tasks, cb, _entries, objs>>]_vars
C15_Witness ==
    /\ call.op = "configure"
    /\ call.input = "bad"
    /\ ret.cid = call.cid
    /\ ret.res = "Invalid"
    /\ ret.arg \in DOMAIN _progress
    /\ _progress[ret.arg].cur_step[2] = "S"

\* C16: when a step returns create_entry and the addEntry it leads to fails
\* the schema validation of the entry data, the failure is raised to the
\* start/configure caller, no entry is added and the flow is already out of
\* the in-progress set.
C16_FailedCreateEntryDropsFlow ==
    [][\A t \in tasks :
        (/\ StepReturned(t)
         /\ cb'.outcome = RESULT_TYPE_CREATE_ENTRY
         /\ t.fid \in DOMAIN _progress
         /\ ~ENTRY_SCHEMA(cb'.result.data)) =>
            /\ ret'.cid = t.cid
            /\ ret'.op = t.op
            /\ ret'.res = "Invalid"
            /\ UNCHANGED <<_entries, objs, _sched_save, timers, jobs>>
            /\ t.fid \notin DOMAIN _progress'
            /\ t.fid \in terminated']_vars
C16_Witness ==
    /\ ret.op \in {"init", "configure"}
    /\ ret.res = "Invalid"
    /\ cb.kind = "step"
    /\ cb.cid = ret.cid
    /\ cb.outcome = RESULT_TYPE_CREATE_ENTRY
    /\ ret.arg \in terminated
    /\ ret.arg \notin DOMAIN _progress

\* C18: once abort(flow_id) has returned normally, no entry is appended on
\* behalf of the flow and the flow never is in the in-progress set again,
\* also when a step of the flow was suspended in plugin code at the abort
\* and later returns create_entry, abort or form.
C18_AbortedFlowMakesNoEntry ==
    /\ [](aborted \cap DOMAIN _progress = {})
    /\ [][\A t \in tasks :
            (StepReturned(t) /\ t.fid \in aborted) =>
                /\ UNCHANGED <<_entries, objs, jobs>>
                /\ tasks' = tasks \ {t}
                /\ t.fid \notin DOMAIN _progress']_vars
C18_Witness ==
    /\ cb.kind = "step"
    /\ cb.outcome = RESULT_TYPE_CREATE_ENTRY
    /\ cb.result.data = "good"
    /\ ret.cid = cb.cid
    /\ ret.arg \in aborted
    /\ ret.res = "KeyError"
C18_WitnessForm ==
    /\ cb.kind = "step"
    /\ cb.outcome = RESULT_TYPE_FORM
    /\ ret.cid = cb.cid
    /\ ret.arg \in aborted

\* C19: whenever no start or configure call is in flight for a flow in the
\* in-progress set, the flow has a cur_step set by a form result, and no
\* configure on a flow in progress fails to reach step dispatch for want of
\* one.
C19_ProgressHasCurStep ==
    /\ \A fid \in DOMAIN _progress :
          (~\E t \in tasks : t.pc = "step" /\ t.fid = fid) =>
              _progress[fid].cur_step # << >>
    /\ ret.res # "TypeError"

\* C20: the unload callback of an entry is never in flight (invoked by
\* removeEntry) while the setup callback that addEntry awaits for the same
\* entry is still in flight.
C20_NoUnloadDuringSetup ==
    \A t \in tasks, u \in tasks :
        ~(/\ t.op = "add"
          /\ t.pc = "setup_entry"
          /\ u.pc = "unload_entry"
          /\ t.ref = u.ref)

====
